---- MODULE Spec2Model ----
(***************************************************************************)
(* A model of bin/passive/passive.c: the passive TCP interception tool.    *)
(*                                                                         *)
(* Five specifications are given over the same state:                      *)
(*   SpecMain    main() from the validation loop (line 565) to the thread  *)
(*               start loop (line 668), with create_passive as one action  *)
(*               per listener;                                             *)
(*   Spec        the event loops once main() is blocked in pthread_join:   *)
(*               accept_cb and passive_receive_cb dispatched by the loops; *)
(*   SpecThreads the same loops, one flow having been accepted before;     *)
(*   SpecRender  the verbose block of passive_receive_cb (lines 157-190)   *)
(*               on one received span, one action per loop iteration;      *)
(*   SpecLabel   the label lines of accept_cb (248-254, 262-268) on the    *)
(*               addresses of one accepted flow.                           *)
(*                                                                         *)
(* Calls into the transport library and into libev are inputs of the       *)
(* handler that makes them: each call's result is drawn with \E.           *)
(***************************************************************************)
EXTENDS Integers, Sequences, FiniteSets, TLC

(***************************************************************************)
(* Bounds of the model.                                                    *)
(***************************************************************************)
\* number of accept-ready events dispatched in one behaviour
MaxAccepts == 1
\* number of readable events dispatched in one behaviour
MaxReads == 2
\* length of the longest span of received bytes rendered
MaxSpan == 12

(***************************************************************************)
(* Program constants.                                                      *)
(***************************************************************************)
\* #define BUFFER_SIZE (64*1024)
BUFFER_SIZE == 65536
\* int print_threshold = 10;
print_threshold == 10
\* #define MAX_INTERFACES 64 / MAX_SERVERS 64 are not reached: the model
\* runs NumInterfaces interfaces and NumServers listen addresses.
NumInterfaces == 2
NumServers == 2

\* The null pointer.  Every resource is named <<kind, n>>.
NULL == <<"NULL", 0>>

\* The objects of accept event k, named after accept_cb's locals.
NewSo(k)     == <<"newso", k>>
PeerSo(k)    == <<"newpeerso", k>>
SoCtx(k)     == <<"soctx", k>>
PeerSoCtx(k) == <<"peersoctx", k>>
Conn(k)      == <<"conn", k>>
PeerConn(k)  == <<"peerconn", k>>
\* The objects of create_passive for servers[s].
Listener(s)   == <<"listener", s>>
ListenCtx(s)  == <<"listen_soctx", s>>
Passive(s)    == <<"passive", s>>

VARIABLES
    ndebug,          \* TRUE iff the build defines NDEBUG (assert compiled out)
    verbose,         \* main's verbose, copied to every passive_context
    pc,              \* main's position
    idx,             \* main's loop variable i
    interfaces,      \* interfaces[] : promisc, cdom, loop, thread
    servers,         \* servers[]    : listen_addr, listen_port, interface, addrany, passive
    soOpen,          \* sockets created or accepted and not closed
    ctxs,            \* ev_uinet_ctx attached and not detached : ctx -> socket
    passives,        \* live passive_context records : id -> record
    listen_watchers, \* started accept watchers : passive id -> [ctx, loop]
    conns,           \* live connection_context records : id -> record
    connFreed,       \* connection_context records freed
    watchers,        \* started read watchers : conn id -> [ctx, loop]
    received,        \* per live connection, sum of read_size over receives that returned 0
    last,            \* the last handler run, its inputs and the locals it ended with
    nAccepts,        \* accept events dispatched so far
    nReads,          \* readable events dispatched so far
    crashed,         \* the process was killed (failed assert, access through NULL)
    render,          \* the verbose block of passive_receive_cb: buffer, locals, stdout
    labelling        \* the label lines of accept_cb: socket addresses, the two labels

vars == <<ndebug, verbose, pc, idx, interfaces, servers, soOpen, ctxs, passives,
          listen_watchers, conns, connFreed, watchers, received, last, nAccepts,
          nReads, crashed, render, labelling>>

mainVars == <<pc, idx, interfaces, servers>>
buildVars == <<ndebug, verbose>>
listenVars == <<passives, listen_watchers>>
connVars == <<conns, connFreed, watchers, received>>

\* f with key k bound to v (k may be new).
Put(f, k, v) == [x \in (DOMAIN f) \cup {k} |-> IF x = k THEN v ELSE f[x]]
\* f without the keys in S.
Drop(f, S) == [x \in (DOMAIN f) \ S |-> f[x]]
NonNull(S) == S \ {NULL}

\* static __inline int imin(int a, int b)
imin(a, b) == IF a < b THEN a ELSE b

(***************************************************************************)
(* The event loops.  interface_thread_start runs ev_run on the interface's *)
(* loop; a loop dispatches one callback at a time, to completion.          *)
(***************************************************************************)
LoopRunning(l) == l \in DOMAIN interfaces /\ interfaces[l].thread = "running"

\* A watcher is dispatched by the loop it was started on, when the socket
\* of its context reports readiness; a context attached to no socket never
\* does.
Dispatchable(w) ==
    /\ ~crashed
    /\ LoopRunning(w.loop)
    /\ w.ctx \in DOMAIN ctxs
    /\ ctxs[w.ctx] \in soOpen

(***************************************************************************)
(* accept_cb                                                               *)
(***************************************************************************)
\* What uinet_soaccept can return (line 217): 0 with the new socket stored
\* in newso, -1, or an errno (35 is EWOULDBLOCK) with nothing stored.  Line
\* 217 compares the value with -1 only.
AcceptReturns == {0, -1, 35}

\* The calls of accept_cb that can return a failure: ev_uinet_attach of
\* newso (222), uinet_sogetpassivepeer (228), ev_uinet_attach of newpeerso
\* (229), calloc of conn (235), calloc of peerconn (241).
AcceptCalls == {"attach", "peer", "peerattach", "conn", "peerconn"}

\* The places of accept_cb, in order: its calls, and the places the process
\* can be killed at: the calls given a NULL socket (222, 228, 229), the
\* reads through sin1 and sin2 and the write of the label (250-252,
\* 264-266), the release of sin1 and sin2 (253-254, 267-268).
AcceptPoints ==
    <<"attach", "peer", "peerattach", "conn", "peerconn",
      "label", "free", "peerlabel", "peerfree">>

\* The position of each place in AcceptPoints.
PointNo ==
    [point \in {AcceptPoints[j] : j \in 1..Len(AcceptPoints)} |->
        CHOOSE j \in 1..Len(AcceptPoints) : AcceptPoints[j] = point]

\* The places the process can be killed at, "none" when it is not.
AcceptFaults == {"none", "attach", "peer", "peerattach", "label", "free", "peerlabel", "peerfree"}

\* accept_cb went past point when the process is killed at crashAt.
WentPast(point, crashAt) == crashAt = "none" \/ PointNo[point] < PointNo[crashAt]

\* The inputs of one accept_cb: ret, what uinet_soaccept returns; fails,
\* the calls that return a failure; crashAt, where the build kills the
\* process.  A call that is not reached cannot fail.  The process can be
\* killed where the behaviour is undefined: in a library call given a NULL
\* socket (newso is NULL when ret is an errno, newpeerso when the peer
\* derivation fails; the peer of a NULL socket is NULL), at 250-254 when
\* newso is NULL (sin1 and sin2 are not initialised), at 264-266 when
\* newpeerso is NULL (sin1 and sin2 were freed at 253-254) or peerconn is
\* NULL, at 267-268 when newpeerso is NULL.
AcceptInputs ==
    {in \in [ret : AcceptReturns, fails : SUBSET AcceptCalls, crashAt : AcceptFaults] :
        LET nullso   == in.ret # 0
            at228    == in.ret # -1 /\ "attach" \notin in.fails
            nullpeer == "peer" \in in.fails
            at248    == at228 /\ "peerattach" \notin in.fails /\ "conn" \notin in.fails
        IN  /\ in.ret = -1 => (in.fails = {} /\ in.crashAt = "none")
            /\ \A call \in in.fails : WentPast(call, in.crashAt)
            /\ "attach" \in in.fails => in.fails = {"attach"}
            /\ "peerattach" \in in.fails => in.fails \subseteq {"peer", "peerattach"}
            /\ "conn" \in in.fails => in.fails \subseteq {"peer", "conn"}
            /\ (nullso /\ at228 /\ WentPast("peer", in.crashAt)) => nullpeer
            /\ in.crashAt = "attach" => (nullso /\ in.ret # -1)
            /\ in.crashAt = "peer" => (nullso /\ at228)
            /\ in.crashAt = "peerattach" => (at228 /\ nullpeer)
            /\ in.crashAt \in {"label", "free"} => (at248 /\ nullso)
            /\ in.crashAt = "peerlabel" => (at248 /\ (nullpeer \/ "peerconn" \in in.fails))
            /\ in.crashAt = "peerfree" => (at248 /\ nullpeer)}

\* Line 242 tests conn where it has just allocated peerconn.
PeerAllocFailed(conn, peerconn) == conn = NULL

\* accept_cb's locals when it leaves or is killed (lines 208-245), for
\* accept event k.
AcceptLocals(k, in) ==
    LET ok(call)  == call \notin in.fails /\ WentPast(call, in.crashAt)
        newso     == IF in.ret = 0 THEN NewSo(k) ELSE NULL
        soctx     == IF in.ret # -1 /\ ok("attach") THEN SoCtx(k) ELSE NULL
        newpeerso == IF soctx # NULL /\ newso # NULL /\ ok("peer") THEN PeerSo(k) ELSE NULL
        peersoctx == IF soctx # NULL /\ ok("peerattach") THEN PeerSoCtx(k) ELSE NULL
        conn      == IF peersoctx # NULL /\ ok("conn") THEN Conn(k) ELSE NULL
        peerconn  == IF conn # NULL /\ ok("peerconn") THEN PeerConn(k) ELSE NULL
    IN  [newso |-> newso, soctx |-> soctx, newpeerso |-> newpeerso,
         peersoctx |-> peersoctx, conn |-> conn, peerconn |-> peerconn]

\* How accept_cb leaves: the accept failed (218), goto fail (225, 232, 238,
\* 244), the process is killed, both watchers started (274), or line 274
\* was reached with peerconn NULL.
AcceptExit(ret, L, crashAt) ==
    IF -1 = ret THEN "accept_failed"
    ELSE IF crashAt = "attach" THEN "crash"
    ELSE IF L.soctx = NULL THEN "fail"
    ELSE IF crashAt \in {"peer", "peerattach"} THEN "crash"
    ELSE IF L.peersoctx = NULL \/ L.conn = NULL THEN "fail"
    ELSE IF PeerAllocFailed(L.conn, L.peerconn) THEN "fail"
    ELSE IF crashAt # "none" THEN "crash"
    ELSE IF L.peerconn = NULL THEN "proceed"
    ELSE "started"

\* accept_fail without line 284: the peer socket is left open.
accept_fail_leaks_peer(L) ==
    [free   |-> NonNull({L.conn, L.peerconn}),
     detach |-> NonNull({L.soctx, L.peersoctx}),
     close  |-> NonNull({L.newso})]

\* The label fail (lines 279-284): what is freed, detached and closed.
accept_fail(L) ==
    [free   |-> NonNull({L.conn, L.peerconn}),
     detach |-> NonNull({L.soctx, L.peersoctx}),
     close  |-> NonNull({L.newso, L.newpeerso})]

NoRelease == [free |-> {}, detach |-> {}, close |-> {}]

\* calloc(1, sizeof(struct connection_context))
NewConnection == [label |-> "", server |-> NULL, bytes_read |-> 0]

\* Lines 250 and 264: the label is written ("SERVER" or "CLIENT", then the
\* addresses) into the new record.
LabelledConnection(label) == [label |-> label, server |-> NULL, bytes_read |-> 0]

\* Lines 250 and 264, 256 and 270: the label is written and server set.
StartedConnection(p, label) == [label |-> label, server |-> p, bytes_read |-> 0]

\* ev_uinet_start on the next loop instead of the one given.
ev_uinet_start_other_loop(loop, ctx) == [ctx |-> ctx, loop |-> (loop % NumInterfaces) + 1]

\* ev_uinet_start(loop, w) for a watcher set on ctx (lines 259-260,
\* 273-274, 403-404): the watcher is started on loop.
ev_uinet_start(loop, ctx) == [ctx |-> ctx, loop |-> loop]

accept_cb(p) ==
    /\ p \in DOMAIN listen_watchers
    /\ Dispatchable(listen_watchers[p])
    /\ nAccepts < MaxAccepts
    /\ \E in \in AcceptInputs :
      \E L \in {AcceptLocals(nAccepts + 1, in)} :
      \E exit \in {AcceptExit(in.ret, L, in.crashAt)} :
        LET k    == nAccepts + 1
            loop == listen_watchers[p].loop
            R    == IF exit = "fail" THEN accept_fail(L) ELSE NoRelease
            \* acquired by lines 217-241
            soA   == soOpen \cup NonNull({L.newso, L.newpeerso})
            ctxA  == LET c1 == IF L.soctx # NULL
                               THEN Put(ctxs, L.soctx, L.newso) ELSE ctxs
                     IN  IF L.peersoctx # NULL
                         THEN Put(c1, L.peersoctx, L.newpeerso) ELSE c1
            connA == LET c1 == IF L.conn # NULL
                               THEN Put(conns, L.conn, NewConnection) ELSE conns
                     IN  IF L.peerconn # NULL
                         THEN Put(c1, L.peerconn, NewConnection) ELSE c1
            \* line 248 was reached
            at248  == \/ exit \in {"started", "proceed"}
                      \/ (exit = "crash" /\ WentPast("peerconn", in.crashAt))
            \* lines 250-252, 256-260, 264-266, 270-274 ran
            label1  == at248 /\ WentPast("label", in.crashAt)
            first   == at248 /\ WentPast("free", in.crashAt)
            label2  == at248 /\ WentPast("peerlabel", in.crashAt)
            second  == at248 /\ WentPast("peerfree", in.crashAt)
            conn1  == IF first
                      THEN Put(connA, L.conn, StartedConnection(p, "SERVER"))
                      ELSE IF label1
                      THEN Put(connA, L.conn, LabelledConnection("SERVER"))
                      ELSE connA
            conn2  == IF L.peerconn = NULL THEN conn1
                      ELSE IF second
                      THEN Put(conn1, L.peerconn, StartedConnection(p, "CLIENT"))
                      ELSE IF label2
                      THEN Put(conn1, L.peerconn, LabelledConnection("CLIENT"))
                      ELSE conn1
            w1     == IF first
                      THEN Put(watchers, L.conn, ev_uinet_start(loop, L.soctx))
                      ELSE watchers
            w2     == IF second
                      THEN Put(w1, L.peerconn, ev_uinet_start(loop, L.peersoctx))
                      ELSE w1
        IN  /\ soOpen' = soA \ R.close
            /\ ctxs' = Drop(ctxA, R.detach)
            /\ conns' = Drop(conn2, R.free)
            /\ connFreed' = connFreed \cup R.free
            /\ watchers' = w2
            /\ received' = [c \in DOMAIN conns' |->
                              IF c \in DOMAIN received THEN received[c] ELSE 0]
            /\ crashed' = (exit = "crash")
            /\ last' = [kind |-> "accept", k |-> k, passive |-> p, exit |-> exit,
                        locals |-> L, thread |-> loop, ret |-> in.ret,
                        crashAt |-> in.crashAt]
    /\ nAccepts' = nAccepts + 1
    /\ UNCHANGED <<mainVars, buildVars, listenVars, nReads, render, labelling>>

(***************************************************************************)
(* passive_receive_cb                                                      *)
(***************************************************************************)
\* What uinet_soreadable can return: an error, nothing, a size below
\* BUFFER_SIZE - 1 and one above it.
ReadableValues == {-1, 0, 1, BUFFER_SIZE}
\* What uinet_soreceive can return: 0 or an errno (54 is ECONNRESET).
ReceiveErrors == {0, 54}
\* What uinet_soreceive can leave in uio_resid.
ResidValues == {0, 1}

\* What uinet_sogetsockopt(TCP_INFO) can return: 0 or an errno (22 is
\* EINVAL).
InfoErrors == {0, 22}

\* A call that is not reached returns nothing: its input is fixed.
ReceiveInputs ==
    {in \in [max_read : ReadableValues, error : ReceiveErrors, resid : ResidValues,
             info_error : InfoErrors] :
        /\ in.max_read <= 0 => in.error = 0 /\ in.resid = 0
        /\ in.error # 0 => in.resid = 0}

\* ReadSize with no room left for the terminator.
ReadSize_no_headroom(max_read) == imin(max_read, BUFFER_SIZE)

\* Line 134.
ReadSize(max_read) == imin(max_read, BUFFER_SIZE - 1)

\* w->so, the socket of the context the watcher of record c is set on.
WatcherSocket(c) == ctxs[watchers[c].ctx]

\* print_tcp_state (lines 85-108): the query failed and one line says so, or
\* the snapshot is printed.  Nothing else is done in either case.
print_tcp_state(error) == IF error # 0 THEN "failed" ELSE "ok"

\* Telemetry with the snapshot taken from verbosity 1.
Telemetry_at_verbose_1(v, error) == IF v > 0 THEN print_tcp_state(error) ELSE "none"

\* Lines 153-154 for conn->server->verbose = v.
Telemetry(v, error) == IF v > 1 THEN print_tcp_state(error) ELSE "none"

\* Line 156: the verbose block runs.
VerboseBlock(v) == v # 0

\* The calls at label err (lines 198-200), in order.
err_calls == <<"ev_uinet_stop", "uinet_soclose", "free">>

Called(calls, f) == \E j \in 1..Len(calls) : calls[j] = f

\* How one invocation leaves (lines 127-149): through label err, through a
\* failed assert (abort), or by returning at line 195.
ReceiveExit(max_read, error, resid) ==
    IF max_read <= 0
    THEN IF max_read = 0 /\ ~ndebug THEN "abort" ELSE "err"
    ELSE IF error # 0 THEN "err"
    ELSE IF resid # 0 /\ ~ndebug THEN "abort"
    ELSE "return"

\* CountBytes done inside the verbose block of line 156.
CountBytes_when_verbose(bytes_read, read_size) ==
    IF verbose > 0 THEN bytes_read + read_size ELSE bytes_read

\* Line 151.  bytes_read is a uint64_t; MaxReads reads of at most
\* BUFFER_SIZE - 1 bytes stay far below 2^64.
CountBytes(bytes_read, read_size) == bytes_read + read_size

\* conn->server->verbose (lines 153, 156).  accept_cb leaves a watcher whose
\* data is NULL only in a process in which the accesses through NULL of
\* lines 264-274 did not fault: there the reads and writes through NULL of
\* this handler do not fault either, server is the passive_context line 270
\* stored, and every passive_context holds main's verbose (line 378).
ServerVerbose(c) ==
    IF c \in DOMAIN conns THEN passives[conns[c].server].verbose ELSE verbose

passive_receive_cb(c) ==
    /\ c \in DOMAIN watchers
    /\ Dispatchable(watchers[c])
    /\ nReads < MaxReads
    /\ nReads' = nReads + 1
    /\ UNCHANGED <<mainVars, buildVars, listenVars, ctxs, nAccepts, render, labelling>>
    /\ \E in \in ReceiveInputs :
       \E exit \in {ReceiveExit(in.max_read, in.error, in.resid)} :
       \E v \in {ServerVerbose(c)} :
         LET so        == WatcherSocket(c)
             \* w->data is a connection_context; it is NULL for the watcher
             \* line 274 started through a NULL peerconn
             record    == c \in DOMAIN conns
             max_read  == in.max_read
             error     == in.error
             resid     == in.resid
             reached   == max_read > 0            \* uinet_soreceive is called
             read_size == IF reached THEN ReadSize(max_read) ELSE 0
             calls     == IF exit = "err" THEN err_calls ELSE <<>>
             telemetry == IF exit = "return" THEN Telemetry(v, in.info_error)
                          ELSE "none"
         IN  /\ telemetry = "none" => in.info_error = 0   \* the query is not made
             /\ crashed' = (exit = "abort")
             /\ watchers' = IF Called(calls, "ev_uinet_stop")
                            THEN Drop(watchers, {c}) ELSE watchers
             /\ soOpen' = IF Called(calls, "uinet_soclose")
                          THEN soOpen \ {so} ELSE soOpen
             \* free(NULL) frees nothing, and line 151 through NULL adds to
             \* no record
             /\ conns' = IF ~record THEN conns
                         ELSE IF Called(calls, "free") THEN Drop(conns, {c})
                         ELSE IF exit = "return"
                         THEN [conns EXCEPT ![c].bytes_read = CountBytes(@, read_size)]
                         ELSE conns
             /\ connFreed' = IF record /\ Called(calls, "free")
                             THEN connFreed \cup {c} ELSE connFreed
             /\ received' = [x \in DOMAIN conns' |->
                               IF x = c /\ reached /\ error = 0
                               THEN received[x] + read_size ELSE received[x]]
             /\ last' = [kind |-> "read", conn |-> c, so |-> so, exit |-> exit,
                         max_read |-> max_read, error |-> error, resid |-> resid,
                         read_size |-> read_size, calls |-> calls,
                         thread |-> watchers[c].loop, telemetry |-> telemetry,
                         rendered |-> (exit = "return" /\ VerboseBlock(v))]

(***************************************************************************)
(* The verbose block of passive_receive_cb (lines 156-192): the received   *)
(* bytes are printed, runs of print_threshold or more printable bytes as   *)
(* text and everything else as a count.  render holds the buffer, the      *)
(* locals and what was printed; bytes and characters are their codes.      *)
(***************************************************************************)
\* No read is in its verbose block.
NoRender == [pc |-> "idle"]

\* IsPrintable without the tab of line 164.
IsPrintable_no_tab(b) == (b >= 32 /\ b <= 126) \/ b = 10 \/ b = 13

\* The condition of line 164.
IsPrintable(b) == (b >= 32 /\ b <= 126) \/ b = 10 \/ b = 13 \/ b = 9

\* RunEmitted for runs longer than print_threshold only.
RunEmitted_above(printable) == printable > print_threshold

\* The condition of line 172.
RunEmitted(printable) == printable >= print_threshold

\* What %u prints for n.
RECURSIVE Decimal(_)
Decimal(n) == IF n < 10 THEN <<48 + n>> ELSE Decimal(n \div 10) \o <<48 + (n % 10)>>

\* Marker without the count.
Marker_no_count(skipped) == <<60, 62>>

\* printf("<%u>", skipped), lines 174 and 186.
Marker(skipped) == <<60>> \o Decimal(skipped) \o <<62>>

\* printf("%s", &buffer[j]): the bytes from index j up to the first NUL.
RECURSIVE CString(_, _)
CString(buf, j) == IF buf[j] = 0 THEN << >> ELSE <<buf[j]>> \o CString(buf, j + 1)

\* The block entered with span received: lines 157, 161-163.  buffer is
\* indexed from 0 as in C; read_size < BUFFER_SIZE leaves room for the
\* terminator.  markers and emitted count what lines 174/186 and 177/189
\* print.
RenderStart(span) ==
    [pc        |-> "loop",
     input     |-> span,
     read_size |-> Len(span),
     buffer    |-> [j \in 0..Len(span) |-> IF j < Len(span) THEN span[j + 1] ELSE 0],
     i         |-> 0,
     printable |-> 0,
     skipped   |-> 0,
     out       |-> << >>,
     markers   |-> << >>,
     emitted   |-> 0]

\* One iteration of the loop of line 163 (lines 164-183, then i++).
RenderByte(r) ==
    IF IsPrintable(r.buffer[r.i])
    THEN [r EXCEPT !.printable = @ + 1, !.i = @ + 1]
    ELSE IF RunEmitted(r.printable)
    THEN LET buf == [r.buffer EXCEPT ![r.i] = 0]
             run == CString(buf, r.i - r.printable)
         IN  [r EXCEPT !.buffer = buf,
                       !.out = @ \o (IF r.skipped # 0 THEN Marker(r.skipped) ELSE << >>)
                                 \o run,
                       !.markers = IF r.skipped # 0 THEN Append(@, r.skipped) ELSE @,
                       !.emitted = @ + Len(run),
                       !.printable = 0,
                       !.skipped = @ + 1,
                       !.i = @ + 1]
    ELSE [r EXCEPT !.skipped = @ + r.printable + 1, !.printable = 0, !.i = @ + 1]

\* RenderEnd with the threshold of line 172 applied to the trailing run.
RenderEnd_threshold(r) ==
    LET buf == [r.buffer EXCEPT ![r.i] = 0]
        run == IF RunEmitted(r.printable) THEN CString(buf, r.i - r.printable) ELSE << >>
    IN  [r EXCEPT !.pc = "done",
                  !.buffer = buf,
                  !.out = @ \o (IF r.skipped # 0 THEN Marker(r.skipped) ELSE << >>)
                            \o run \o <<10>>,
                  !.markers = IF r.skipped # 0 THEN Append(@, r.skipped) ELSE @,
                  !.emitted = @ + Len(run)]

\* After the loop (lines 185-190): the marker, the trailing run, "\n".
RenderEnd(r) ==
    LET buf == [r.buffer EXCEPT ![r.i] = 0]
        run == CString(buf, r.i - r.printable)
    IN  [r EXCEPT !.pc = "done",
                  !.buffer = buf,
                  !.out = @ \o (IF r.skipped # 0 THEN Marker(r.skipped) ELSE << >>)
                            \o run \o <<10>>,
                  !.markers = IF r.skipped # 0 THEN Append(@, r.skipped) ELSE @,
                  !.emitted = @ + Len(run)]

\* Every variable but render.
progVars == <<ndebug, verbose, pc, idx, interfaces, servers, soOpen, ctxs, passives,
              listen_watchers, conns, connFreed, watchers, received, last, nAccepts,
              nReads, crashed, labelling>>

\* for (i = 0; i < read_size; i++) { ... }
RenderLoop ==
    /\ render.pc = "loop"
    /\ render.i < render.read_size
    /\ render' = RenderByte(render)
    /\ UNCHANGED progVars

\* i = read_size: lines 185-190.
RenderFinish ==
    /\ render.pc = "loop"
    /\ ~(render.i < render.read_size)
    /\ render' = RenderEnd(render)
    /\ UNCHANGED progVars

(***************************************************************************)
(* The labels of accept_cb (lines 248-254 and 262-268).  labelling holds   *)
(* the addresses of the two sockets and the two labels; text is a sequence *)
(* of character codes.                                                     *)
(***************************************************************************)
\* No accept is writing labels.
NoLabelling == [pc |-> "idle"]

\* char label[64];
LABEL_SIZE == 64

\* ntohs of a sin_port given as its two bytes in network order.
ntohs(sin_port) == sin_port[1] * 256 + sin_port[2]

\* The text uinet_inet_ntoa writes for a sin_addr given as its four bytes
\* in network order.
inet_ntoa(sin_addr) ==
    Decimal(sin_addr[1]) \o <<46>> \o Decimal(sin_addr[2]) \o <<46>>
        \o Decimal(sin_addr[3]) \o <<46>> \o Decimal(sin_addr[4])

\* The buffers the two uinet_inet_ntoa calls of one snprintf are given
\* (lines 251-252, 265-266): buf1 both times.  Each call returns its buffer.
LocalBuf == "buf1"
RemoteBuf == "buf1"

\* snprintf into a buffer of size bytes keeps size - 1 characters.
Truncated(text, size) == SubSeq(text, 1, imin(Len(text), size - 1))

\* snprintf(label, sizeof(label), "<tag> (%s:%u <- %s:%u)", ...) with sin1
\* the local and sin2 the remote address.  The order in which the two
\* uinet_inet_ntoa arguments are evaluated is unspecified; %s prints what
\* the buffer holds once both calls have returned.
snprintf_label(tag, sin1, sin2, order) ==
    LET written == IF order = "local_first"
                   THEN <<[buf |-> LocalBuf, text |-> inet_ntoa(sin1.sin_addr)],
                          [buf |-> RemoteBuf, text |-> inet_ntoa(sin2.sin_addr)]>>
                   ELSE <<[buf |-> RemoteBuf, text |-> inet_ntoa(sin2.sin_addr)],
                          [buf |-> LocalBuf, text |-> inet_ntoa(sin1.sin_addr)]>>
        \* the last text written to buffer b
        held(b) == IF written[2].buf = b THEN written[2].text ELSE written[1].text
    IN  Truncated(tag \o <<32, 40>> \o held(LocalBuf) \o <<58>>
                      \o Decimal(ntohs(sin1.sin_port)) \o <<32, 60, 45, 32>>
                      \o held(RemoteBuf) \o <<58>>
                      \o Decimal(ntohs(sin2.sin_port)) \o <<41>>,
                  LABEL_SIZE)

\* "SERVER" and "CLIENT".
SERVER == <<83, 69, 82, 86, 69, 82>>
CLIENT == <<67, 76, 73, 69, 78, 84>>

\* The orders the build can evaluate the two calls in.
EvalOrders == {"local_first", "remote_first"}

\* Every variable but labelling.
nonLabelVars == <<ndebug, verbose, pc, idx, interfaces, servers, soOpen, ctxs, passives,
                  listen_watchers, conns, connFreed, watchers, received, last, nAccepts,
                  nReads, crashed, render>>

\* Lines 248-254: uinet_sogetsockaddr and uinet_sogetpeeraddr of newso, then
\* conn->label.
LabelConn ==
    /\ labelling.pc = "conn"
    /\ \E order \in EvalOrders :
         labelling' = [labelling EXCEPT
                         !.pc = "peerconn",
                         !.conn = snprintf_label(SERVER, labelling.newso.local,
                                                 labelling.newso.remote, order)]
    /\ UNCHANGED nonLabelVars

\* Lines 262-268: the same for newpeerso and peerconn->label.
LabelPeerConn ==
    /\ labelling.pc = "peerconn"
    /\ \E order \in EvalOrders :
         labelling' = [labelling EXCEPT
                         !.pc = "done",
                         !.peerconn = snprintf_label(CLIENT, labelling.newpeerso.local,
                                                     labelling.newpeerso.remote, order)]
    /\ UNCHANGED nonLabelVars

(***************************************************************************)
(* create_passive                                                          *)
(***************************************************************************)
\* uinet_inet_pton on a listen address: "any" is 0.0.0.0, "host" another
\* well-formed address, "bad" a malformed one.
AddrKinds == {"any", "host", "bad"}
inet_pton(listen_addr) == IF listen_addr = "bad" THEN 0 ELSE 1

\* The calls of create_passive that can make it goto fail, in order (lines
\* 299, 304, 310, 316, 322, 336, 342, 348, 354, 360, 366, 371, 385, 391).
PassiveSteps ==
    <<"inet_pton", "socreate", "attach", "make_passive", "make_promiscuous",
      "TCP_NODELAY", "TCP_KEEPINIT", "TCP_KEEPIDLE", "TCP_KEEPINTVL", "TCP_KEEPCNT",
      "TCP_REASSDL", "malloc", "bind", "listen">>

StepNo(step) == CHOOSE j \in 1..Len(PassiveSteps) : PassiveSteps[j] = step

\* The step can fail for this configuration: inet_pton fails exactly on a
\* malformed address, make_promiscuous is only called for a promiscuous
\* interface (line 321), the other calls fail when the library says so.
CanFail(step, listen_addr, promisc) ==
    CASE step = "inet_pton"        -> inet_pton(listen_addr) <= 0
      [] step = "make_promiscuous" -> promisc /\ inet_pton(listen_addr) > 0
      [] OTHER                     -> inet_pton(listen_addr) > 0

\* The first failing step, or "none".
PassiveInputs(listen_addr, promisc) ==
    {PassiveSteps[j] : j \in {j \in 1..Len(PassiveSteps) :
                                CanFail(PassiveSteps[j], listen_addr, promisc)}}
    \cup (IF inet_pton(listen_addr) > 0 THEN {"none"} ELSE {})

\* Step b was passed when create_passive fails at failAt.
Passed(step, failAt) == failAt = "none" \/ StepNo(step) < StepNo(failAt)

\* create_passive's locals when it leaves, for servers[s].
PassiveLocals(s, failAt) ==
    [listener |-> IF Passed("socreate", failAt) THEN Listener(s) ELSE NULL,
     soctx    |-> IF Passed("attach", failAt) THEN ListenCtx(s) ELSE NULL,
     passive  |-> IF Passed("malloc", failAt) THEN Passive(s) ELSE NULL]

\* passive_fail without line 409: the loop attachment is leaked.
passive_fail_leaks_ctx(L) ==
    [detach |-> {},
     close  |-> NonNull({L.listener}),
     free   |-> NonNull({L.passive})]

\* The label fail (lines 409-411): what is detached, closed and freed.
passive_fail(L) ==
    [detach |-> NonNull({L.soctx}),
     close  |-> NonNull({L.listener}),
     free   |-> NonNull({L.passive})]

\* Lines 321-326: the capture domains the listener of servers[s] has been
\* marked promiscuous in when create_passive leaves.
MarkedPromiscuous(s, failAt) ==
    LET ifc == interfaces[servers[s].interface]
    IN  IF ifc.promisc /\ Passed("make_promiscuous", failAt) THEN {ifc.cdom} ELSE {}

\* create_passive(loop, &servers[s]); loop is the interface's number, 0 for
\* a NULL loop.  ub is what the build does with ev_uinet_start on a NULL
\* loop (line 404).  The value is the passive_context returned.
create_passive(loop, s, failAt, ub) ==
    LET L      == PassiveLocals(s, failAt)
        failed == failAt # "none"
        R      == IF failed THEN passive_fail(L)
                  ELSE [detach |-> {}, close |-> {}, free |-> {}]
        soA    == soOpen \cup NonNull({L.listener})
        ctxA   == IF L.soctx # NULL THEN Put(ctxs, L.soctx, L.listener) ELSE ctxs
        pasA   == IF L.passive # NULL
                  THEN Put(passives, L.passive,
                           [loop |-> loop, listener |-> L.listener, verbose |-> verbose])
                  ELSE passives
        fault  == ~failed /\ loop = 0 /\ ub = "crash"
        result == IF failed THEN NULL ELSE L.passive
    IN  /\ soOpen' = soA \ R.close
        /\ ctxs' = Drop(ctxA, R.detach)
        /\ passives' = Drop(pasA, R.free)
        /\ listen_watchers' =
              IF ~failed /\ ~fault
              THEN Put(listen_watchers, L.passive, ev_uinet_start(loop, L.soctx))
              ELSE listen_watchers
        /\ crashed' = fault
        /\ last' = [kind |-> "create_passive", server |-> s, failAt |-> failAt,
                    locals |-> L, result |-> IF fault THEN NULL ELSE result,
                    promiscuous |-> MarkedPromiscuous(s, failAt)]
        /\ servers' = [servers EXCEPT ![s].verbose = verbose,
                                      ![s].passive = IF fault THEN NULL ELSE result]

(***************************************************************************)
(* main, from line 565.                                                    *)
(***************************************************************************)
\* Lines 485-509: -i begins the next interface and -l puts the next server
\* on the interface of the last -i given before it, so the interfaces of
\* servers[1], servers[2], ... never go down; an interface can have several
\* servers or none.
Placements ==
    {place \in [1..NumServers -> 1..NumInterfaces] :
        \A s \in 1..NumServers : \A t \in 1..NumServers : s <= t => place[s] <= place[t]}

\* The placement of the options -i -l -i -l ... -l: servers[s] is on
\* interface s, the last interface taking the servers beyond NumInterfaces.
OnePerInterface == [s \in 1..NumServers |-> imin(s, NumInterfaces)]

\* Values of listen_port after option parsing: unset, 0, a port, too large.
PortValues == {-1, 0, 80, 65536}

\* SetsPromisc without lines 578-579: port 0 alone does not set the flag.
SetsPromisc_only_any(port, any) == any

\* Lines 578-579 and 586-589: listen port 0, or the address 0.0.0.0, sets
\* the promisc flag of the server's interface.
SetsPromisc(port, any) == port = 0 \/ any

\* Lines 565-590, one iteration: servers[idx] is validated.
ValidateServer ==
    /\ pc = "validate"
    /\ ~crashed
    /\ LET s    == idx
           cfg  == servers[s]
           port == cfg.listen_port
           l    == cfg.interface
           bad_port == port = -1 \/ port < 0 \/ port > 65535
           bad_addr == inet_pton(cfg.listen_addr) <= 0
           any  == ~bad_addr /\ cfg.listen_addr = "any"
       IN  /\ interfaces' = IF ~bad_port /\ SetsPromisc(port, any)
                            THEN [interfaces EXCEPT ![l].promisc = TRUE]
                            ELSE interfaces
           /\ servers' = IF ~bad_port /\ any
                         THEN [servers EXCEPT ![s].addrany = TRUE]
                         ELSE servers
           /\ IF bad_port \/ bad_addr
              THEN pc' = "exit1" /\ idx' = idx
              ELSE IF s < NumServers
              THEN pc' = "validate" /\ idx' = s + 1
              ELSE pc' = "ifcreate" /\ idx' = 1
           /\ last' = [kind |-> "validate", server |-> s]
    /\ UNCHANGED <<buildVars, soOpen, ctxs, listenVars, connVars, nAccepts, nReads, crashed,
                   render, labelling>>

\* Lines 595-617, one iteration: interfaces[idx] is created and gets its
\* loop; ev_loop_new returning NULL ends the loop.
CreateInterface ==
    /\ pc = "ifcreate"
    /\ ~crashed
    /\ \E loopOK \in BOOLEAN :
        /\ interfaces' = [interfaces EXCEPT ![idx].created = TRUE, ![idx].loop = loopOK]
        /\ IF loopOK /\ idx < NumInterfaces
           THEN pc' = "ifcreate" /\ idx' = idx + 1
           ELSE pc' = "listen" /\ idx' = 1      \* lines 620-631 change no state here
    /\ last' = [kind |-> "ifcreate", interface |-> idx]
    /\ UNCHANGED <<buildVars, servers, soOpen, ctxs, listenVars, connVars, nAccepts,
                   nReads, crashed, render, labelling>>

\* Where main goes after create_passive returned passive for servers[s]
\* (lines 634, 644-649): to the next server, or out of the loop.
ListenLoop(s, passive) ==
    IF passive # NULL /\ s < NumServers
    THEN [pc |-> "listen", idx |-> s + 1]
    ELSE [pc |-> "threads", idx |-> 1]

\* Lines 634-650, one iteration: the listener of servers[idx] is
\* constructed; a NULL result ends the loop.
CreateListener ==
    /\ pc = "listen"
    /\ ~crashed
    /\ LET s    == idx
           l    == servers[s].interface
           loop == IF interfaces[l].loop THEN l ELSE 0
       IN  \E failAt \in PassiveInputs(servers[s].listen_addr, interfaces[l].promisc),
              ub \in {"crash", "proceed"} :
             /\ (failAt # "none" \/ loop # 0) => ub = "crash"
             /\ create_passive(loop, s, failAt, ub)
             /\ pc' = ListenLoop(s, servers'[s].passive).pc
             /\ idx' = ListenLoop(s, servers'[s].passive).idx
    /\ UNCHANGED <<buildVars, interfaces, connVars, nAccepts, nReads, render, labelling>>

\* Lines 653-668, one iteration: pthread_create for interfaces[idx]; the new
\* thread has not yet reached ev_run when it returns.
StartThread ==
    /\ pc = "threads"
    /\ ~crashed
    /\ \E created \in BOOLEAN :
        interfaces' = [interfaces EXCEPT ![idx].thread =
                          IF created THEN "created" ELSE "failed"]
    /\ IF idx < NumInterfaces
       THEN pc' = "threads" /\ idx' = idx + 1
       ELSE pc' = "join" /\ idx' = 0
    /\ last' = [kind |-> "thread", interface |-> idx]
    /\ UNCHANGED <<buildVars, servers, soOpen, ctxs, listenVars, connVars, nAccepts, nReads,
                   crashed, render, labelling>>

\* interface_thread_start up to line 423, in the thread of interfaces[l]:
\* the thread enters ev_run on the interface's loop.  ub is what the build
\* does with ev_run on a NULL loop: the process is killed, or ev_run returns.
interface_thread_start(l) ==
    /\ ~crashed
    /\ interfaces[l].thread = "created"
    /\ \E ub \in {"crash", "proceed"} :
        /\ interfaces[l].loop => ub = "crash"
        /\ LET fault == ~interfaces[l].loop
           IN  /\ crashed' = (fault /\ ub = "crash")
               /\ interfaces' = [interfaces EXCEPT ![l].thread =
                                   IF fault THEN "exited" ELSE "running"]
    /\ UNCHANGED <<buildVars, pc, idx, servers, soOpen, ctxs, listenVars, connVars, last,
                   nAccepts, nReads, render, labelling>>

\* interface_thread_start from line 423: ev_run returns when its loop has no
\* started watcher, and the thread ends.
interface_thread_exit(l) ==
    /\ ~crashed
    /\ interfaces[l].thread = "running"
    /\ \A p \in DOMAIN listen_watchers : listen_watchers[p].loop # l
    /\ \A c \in DOMAIN watchers : watchers[c].loop # l
    /\ interfaces' = [interfaces EXCEPT ![l].thread = "exited"]
    /\ UNCHANGED <<buildVars, pc, idx, servers, soOpen, ctxs, listenVars, connVars, last,
                   nAccepts, nReads, crashed, render, labelling>>

\* Lines 671-680: every created thread is joined, the interfaces are
\* destroyed and main returns 0.
Join ==
    /\ pc = "join"
    /\ ~crashed
    /\ \A l \in DOMAIN interfaces : interfaces[l].thread \in {"failed", "exited"}
    /\ pc' = "exit0"
    /\ UNCHANGED <<buildVars, idx, interfaces, servers, soOpen, ctxs, listenVars, connVars,
                   last, nAccepts, nReads, crashed, render, labelling>>

\* The state main is in at line 565: options parsed, at least one
\* interface and one listen address (lines 555-563).  -P sets the promisc
\* flag of the last interface (line 515) and falls into case 'p': main
\* returns 1 when that interface has no listen address yet (518-520), and
\* line 522 calls strtoul on optarg, which is NULL for an option without
\* argument; where that read does not fault the flag stays set and the
\* port of the last server is what strtoul returned, until a later -p
\* replaces it.  So a flag can be set on an interface that has a server,
\* with any ports.  main and interface_thread_start have no assert, so
\* the two builds run them alike and the build with assertions stands for
\* both.
MainInit ==
    /\ ndebug = FALSE
    /\ verbose \in 0..2
    /\ pc = "validate"
    /\ idx = 1
    /\ interfaces \in [1..NumInterfaces ->
                         [promisc : BOOLEAN, cdom : 1..NumInterfaces, created : {FALSE},
                          loop : {FALSE}, thread : {"none"}]]
    /\ \A l \in 1..NumInterfaces : interfaces[l].cdom = l
    /\ servers \in [1..NumServers ->
                      [listen_addr : AddrKinds, listen_port : PortValues,
                       interface : 1..NumInterfaces, addrany : {FALSE}, verbose : {0},
                       passive : {NULL}]]
    /\ [s \in 1..NumServers |-> servers[s].interface] \in Placements
    /\ \A l \in 1..NumInterfaces :
          interfaces[l].promisc => \E s \in 1..NumServers : servers[s].interface = l
    /\ soOpen = {}
    /\ ctxs = << >>
    /\ passives = << >>
    /\ listen_watchers = << >>
    /\ conns = << >>
    /\ connFreed = {}
    /\ watchers = << >>
    /\ received = << >>
    /\ last = [kind |-> "none"]
    /\ nAccepts = 0
    /\ nReads = 0
    /\ crashed = FALSE
    /\ render = NoRender
    /\ labelling = NoLabelling

ThreadRun == \E l \in DOMAIN interfaces : interface_thread_start(l)
ThreadExit == \E l \in DOMAIN interfaces : interface_thread_exit(l)

MainNext ==
    \/ ValidateServer
    \/ CreateInterface
    \/ CreateListener
    \/ StartThread
    \/ ThreadRun
    \/ ThreadExit
    \/ Join

SpecMain == MainInit /\ [][MainNext]_vars

(***************************************************************************)
(* Spec: the event loops, from the state main() leaves when every listener *)
(* was constructed, every thread started and main() waits in pthread_join, *)
(* for a command line that gives each interface its listener.              *)
(***************************************************************************)
\* The state main leaves: every listener constructed, every thread running.
\* place is the placement of the servers on the interfaces; E is the set of
\* accept events dispatched before, all on the loop of servers[1]: their
\* Connections are started and nothing was read yet.
RunState(E, place) ==
    /\ ndebug \in BOOLEAN
    /\ verbose \in 0..2
    /\ pc = "join"
    /\ idx = 0
    /\ interfaces = [l \in 1..NumInterfaces |->
                       [promisc |-> FALSE, cdom |-> l, created |-> TRUE, loop |-> TRUE,
                        thread |-> "running"]]
    /\ servers = [s \in 1..NumServers |->
                    [listen_addr |-> "host", listen_port |-> 80,
                     interface |-> place[s], addrany |-> FALSE,
                     verbose |-> verbose, passive |-> Passive(s)]]
    /\ soOpen = {Listener(s) : s \in 1..NumServers}
                \cup {NewSo(k) : k \in E} \cup {PeerSo(k) : k \in E}
    /\ ctxs = [c \in {ListenCtx(s) : s \in 1..NumServers}
                     \cup {SoCtx(k) : k \in E} \cup {PeerSoCtx(k) : k \in E} |->
                 IF c[1] = "listen_soctx" THEN Listener(c[2])
                 ELSE IF c[1] = "soctx" THEN NewSo(c[2]) ELSE PeerSo(c[2])]
    /\ passives = [p \in {Passive(s) : s \in 1..NumServers} |->
                     [loop |-> place[p[2]], listener |-> Listener(p[2]),
                      verbose |-> verbose]]
    /\ listen_watchers = [p \in {Passive(s) : s \in 1..NumServers} |->
                            [ctx |-> ListenCtx(p[2]), loop |-> place[p[2]]]]
    /\ conns = [c \in {Conn(k) : k \in E} \cup {PeerConn(k) : k \in E} |->
                  [label |-> IF c[1] = "conn" THEN "SERVER" ELSE "CLIENT",
                   server |-> Passive(1), bytes_read |-> 0]]
    /\ connFreed = {}
    /\ watchers = [c \in DOMAIN conns |->
                     [ctx |-> IF c[1] = "conn" THEN SoCtx(c[2]) ELSE PeerSoCtx(c[2]),
                      loop |-> place[1]]]
    /\ received = [c \in DOMAIN conns |-> 0]
    /\ last = [kind |-> "none"]
    /\ nAccepts = 0
    /\ nReads = 0
    /\ crashed = FALSE

RunInit ==
    /\ RunState({}, OnePerInterface)
    /\ render = NoRender
    /\ labelling = NoLabelling

Accept == \E p \in DOMAIN listen_watchers : accept_cb(p)
Receive == \E c \in DOMAIN watchers : passive_receive_cb(c)

Next == Accept \/ Receive

Spec == RunInit /\ [][Next]_vars

(***************************************************************************)
(* SpecThreads: the event loops at verbosity 0 in a build with assertions, *)
(* from a state in which the loop of servers[1] has accepted one flow      *)
(* (accept event 0) before: its thread reads these Connections while any   *)
(* thread accepts and reads.                                               *)
(***************************************************************************)
ThreadsInit ==
    /\ RunState({0}, OnePerInterface)
    /\ ndebug = FALSE
    /\ verbose = 0
    /\ render = NoRender
    /\ labelling = NoLabelling

SpecThreads == ThreadsInit /\ [][Next]_vars

(***************************************************************************)
(* SpecRender: one read at verbosity 1 has received a span and is in its   *)
(* verbose block.                                                          *)
(***************************************************************************)
\* n bytes b.
Rep(b, n) == [j \in 1..n |-> b]

\* A non-printable and a printable byte: 0x01 and 'A'.
Alphabet == {1, 65}

\* "AAAAAAAAAA", three non-printable bytes, "BB".
TrailingRunExample == Rep(65, 10) \o <<0, 31, 127>> \o <<66, 66>>
\* Five printable bytes: space, '~', tab, newline, carriage return.
PrintableExample == <<32, 126, 9, 10, 13>>
\* Non-printable bytes next to every bound of line 164.
NonPrintableExample == <<0, 8, 11, 12, 14, 31, 127, 128, 255, 1>>

\* The spans rendered: every span over Alphabet of 1 to MaxSpan bytes, and
\* the examples.
Spans ==
    UNION {[1..n -> Alphabet] : n \in 1..MaxSpan}
    \cup {TrailingRunExample, PrintableExample, NonPrintableExample}

RenderInit ==
    /\ RunState({}, OnePerInterface)
    /\ ndebug = FALSE
    /\ verbose = 1
    /\ \E span \in Spans : render = RenderStart(span)
    /\ labelling = NoLabelling

RenderNext == RenderLoop \/ RenderFinish

SpecRender == RenderInit /\ [][RenderNext]_vars

(***************************************************************************)
(* SpecLabel: one accept_cb has allocated both records and is at line 248. *)
(***************************************************************************)
\* sin_addr values: 10.0.0.1 and 192.168.1.20.
Addrs == {<<10, 0, 0, 1>>, <<192, 168, 1, 20>>}
\* sin_port values: 80 and 50000.
Ports == {<<0, 80>>, <<195, 80>>}
\* What uinet_sogetsockaddr and uinet_sogetpeeraddr can return.
SockAddrs == [sin_addr : Addrs, sin_port : Ports]

LabelInit ==
    /\ RunState({}, OnePerInterface)
    /\ ndebug = FALSE
    /\ verbose = 0
    /\ render = NoRender
    /\ \E a \in [local : SockAddrs, remote : SockAddrs],
          b \in [local : SockAddrs, remote : SockAddrs] :
         labelling = [pc |-> "conn", newso |-> a, newpeerso |-> b,
                      conn |-> << >>, peerconn |-> << >>]

LabelNext == LabelConn \/ LabelPeerConn

SpecLabel == LabelInit /\ [][LabelNext]_vars

(***************************************************************************)
(* Properties of accept_cb (specification Spec).                           *)
(***************************************************************************)
\* The state is the one an accept-ready event has just left.
AfterAccept == last.kind = "accept"

\* The Connections of accept event k whose readability watcher is started.
StartedBy(k) ==
    {c \in {Conn(k), PeerConn(k)} : c \in DOMAIN conns /\ c \in DOMAIN watchers}

\* Some started watcher uses context x.
Watched(x) == \E c \in DOMAIN watchers : watchers[c].ctx = x

\* Nothing accept event k acquired is held: sockets closed, contexts
\* detached, records freed, no watcher started.
ReleasedAll(k) ==
    /\ NewSo(k) \notin soOpen
    /\ PeerSo(k) \notin soOpen
    /\ SoCtx(k) \notin DOMAIN ctxs
    /\ PeerSoCtx(k) \notin DOMAIN ctxs
    /\ Conn(k) \notin DOMAIN conns
    /\ PeerConn(k) \notin DOMAIN conns
    /\ ~Watched(SoCtx(k))
    /\ ~Watched(PeerSoCtx(k))

\* C1: an accept-ready event leaves exactly 0 or exactly 2 Connections with
\* a started readability watcher, never 1, whichever of its steps failed.
C1_ZeroOrTwoStarted ==
    AfterAccept => Cardinality(StartedBy(last.k)) \in {0, 2}

\* C2: when the allocation of either Connection record fails, accept_cb
\* releases every socket and attachment of this accept, starts no watcher
\* and returns through its fail label without using the missing record.
C2_AllocFailureReleasesAll ==
    (/\ AfterAccept
     /\ last.locals.peersoctx # NULL
     /\ (last.locals.conn = NULL \/ last.locals.peerconn = NULL))
    => (last.exit = "fail" /\ ~crashed /\ ReleasedAll(last.k))

\* The accept and the peer derivation succeeded and the peer attach failed.
PeerAttachFailed ==
    /\ AfterAccept
    /\ last.locals.soctx # NULL
    /\ last.locals.newpeerso # NULL
    /\ last.locals.peersoctx = NULL

\* C3: when accept and peer derivation succeed and attaching the peer socket
\* fails, the primary socket is closed, its attachment detached, the peer
\* socket closed, and no watcher is registered for either socket.
C3_PeerAttachFailureReleases ==
    PeerAttachFailed =>
        /\ last.exit = "fail"
        /\ ~crashed
        /\ last.locals.newso \notin soOpen
        /\ last.locals.soctx \notin DOMAIN ctxs
        /\ last.locals.newpeerso \notin soOpen
        /\ ~Watched(SoCtx(last.k))
        /\ ~Watched(PeerSoCtx(last.k))
        /\ StartedBy(last.k) = {}

\* The witness of C3: a peer attach failed after the accept, the primary
\* attach and the peer derivation had succeeded, and accept_cb has returned.
C3_Witness ==
    /\ PeerAttachFailed
    /\ last.locals.newso = NewSo(last.k)
    /\ last.locals.newpeerso = PeerSo(last.k)
    /\ last.exit = "fail"

\* C4: when deriving the passive peer fails (no peer socket), the primary
\* socket and its attachment are released and no Connection is started.
C4_PeerDerivationFailureAborts ==
    (/\ AfterAccept
     /\ last.locals.soctx # NULL
     /\ last.locals.newpeerso = NULL)
    => (/\ last.exit = "fail"
        /\ last.locals.newso \notin soOpen
        /\ last.locals.soctx \notin DOMAIN ctxs
        /\ StartedBy(last.k) = {})

\* C5: after an accept-ready event, whatever its outcome, every Listener's
\* socket is still open, its accept watcher still started on its loop, and
\* the loop still dispatches it.
C5_ListenerKeepsServing ==
    AfterAccept =>
        \A s \in 1..NumServers :
            /\ Listener(s) \in soOpen
            /\ Passive(s) \in DOMAIN listen_watchers
            /\ Dispatchable(listen_watchers[Passive(s)])

(***************************************************************************)
(* Properties of passive_receive_cb (specification Spec).                  *)
(***************************************************************************)
\* This step is one invocation of the read handler on a Connection record.
ReadStep == nReads' = nReads + 1 /\ last'.conn \in DOMAIN conns

\* Everything but the Connection the step read from is as it was: the other
\* records, their watchers and sockets, every Listener, and the process.
OthersUntouched ==
    LET c == last'.conn
    IN  /\ ~crashed'
        /\ \A d \in (DOMAIN conns) \ {c} :
              /\ d \in DOMAIN conns' /\ conns'[d] = conns[d]
              /\ (d \in DOMAIN watchers =>
                     /\ d \in DOMAIN watchers' /\ watchers'[d] = watchers[d]
                     /\ ctxs'[watchers[d].ctx] = ctxs[watchers[d].ctx]
                     /\ (ctxs[watchers[d].ctx] \in soOpen
                            => ctxs[watchers[d].ctx] \in soOpen'))
        /\ listen_watchers' = listen_watchers
        /\ \A s \in 1..NumServers :
              /\ Listener(s) \in soOpen'
              /\ Dispatchable(listen_watchers[Passive(s)])'

\* The Connection the step read from has ended.
Ended == last'.conn \notin DOMAIN watchers' /\ last'.conn \notin DOMAIN conns'

\* C6: a read failure (receive error, availability of zero or less, or a
\* receive that leaves part of the size unread) ends that Connection and
\* only that one.  Violated: an availability of zero (line 130) and a short
\* receive (line 149) fail an assert, which ends the whole process; without
\* assertions the short receive is counted at line 151 and ends nothing.
C6_ReadFailureEndsOnlyThat ==
    [][(ReadStep /\ (last'.max_read <= 0 \/ last'.error # 0 \/ last'.resid # 0))
          => (Ended /\ OthersUntouched)]_vars

\* C7: while the process runs, every Connection's bytes_read is the sum of
\* the read sizes of the invocations whose receive succeeded, at every
\* verbosity, and no step lowers it.
C7_CounterIsSumOfReads ==
    /\ [](~crashed => \A c \in DOMAIN conns : conns[c].bytes_read = received[c])
    /\ [][\A c \in (DOMAIN conns) \cap (DOMAIN conns') :
             conns'[c].bytes_read >= conns[c].bytes_read]_vars

\* The witness of C7: at verbosity 0 a Connection has counted two reads, one
\* cut to BUFFER_SIZE - 1 and one of a single byte.
C7_Witness ==
    /\ verbose = 0
    /\ ~crashed
    /\ \E c \in DOMAIN conns : conns[c].bytes_read = (BUFFER_SIZE - 1) + 1
    /\ last.kind = "read" /\ last.max_read = BUFFER_SIZE /\ last.exit = "return"

\* The last invocation, on a Connection record, met a fatal condition:
\* nothing to read (line 128), a receive error (line 144), or a receive
\* that left part of the size unread (line 149).
FatalCondition ==
    /\ last.kind = "read"
    /\ last.conn # NULL
    /\ (last.max_read <= 0 \/ last.error # 0 \/ last.resid # 0)

\* The last invocation stopped the watcher, closed the socket and freed the
\* record, in this order, and nothing of the Connection is left.
TornDown ==
    /\ last.calls = <<"ev_uinet_stop", "uinet_soclose", "free">>
    /\ last.conn \notin DOMAIN watchers
    /\ last.so \notin soOpen
    /\ last.conn \notin DOMAIN conns
    /\ last.conn \in connFreed

\* C8: every fatal condition in the read handler stops the watcher, closes
\* the socket and frees the record, in this order.  Violated: the asserts
\* of lines 130 and 149 end the process with none of the three calls made,
\* and without assertions a short receive returns at line 195 with the
\* Connection left as it was.
C8_FatalConditionTearsDown == FatalCondition => TornDown

(***************************************************************************)
(* Properties of create_passive and of main (specification SpecMain).      *)
(***************************************************************************)
\* The state is the one a create_passive call has just left.
AfterCreatePassive == last.kind = "create_passive"

\* The listener of servers[s] is constructed and started.
Constructed(s) ==
    /\ servers[s].passive = Passive(s)
    /\ Passive(s) \in DOMAIN passives
    /\ Passive(s) \in DOMAIN listen_watchers
    /\ Listener(s) \in soOpen
    /\ ListenCtx(s) \in DOMAIN ctxs

\* servers[s] has no listener and holds nothing.
Absent(s) ==
    /\ servers[s].passive = NULL
    /\ Passive(s) \notin DOMAIN passives
    /\ Passive(s) \notin DOMAIN listen_watchers
    /\ Listener(s) \notin soOpen
    /\ ListenCtx(s) \notin DOMAIN ctxs

\* C9: when a step of create_passive fails, it returns no listener, the
\* socket, the loop attachment and the context it had allocated are
\* released, and no accept watcher is started.
C9_FailedConstructionReleases ==
    (AfterCreatePassive /\ last.failAt # "none") =>
        /\ last.result = NULL
        /\ Absent(last.server)

\* The witness of C9: listen, the last step, failed with the socket, the
\* attachment and the context all allocated.
C9_Witness ==
    /\ AfterCreatePassive
    /\ last.failAt = "listen"
    /\ last.locals = [listener |-> Listener(last.server),
                      soctx |-> ListenCtx(last.server),
                      passive |-> Passive(last.server)]
    /\ Absent(last.server)

\* C10: when the construction of one Listener has failed, every other
\* configured Listener (on interfaces that all have their loop) is
\* constructed and started once main has left its construction loop.
\* Violated: the break of line 648 leaves the loop at the first failure,
\* and the Listeners configured after it are never constructed.
C10_OtherListenersConstructed ==
    (/\ AfterCreatePassive
     /\ last.failAt # "none"
     /\ pc = "threads"
     /\ \A l \in 1..NumInterfaces : interfaces[l].loop)
    => \A s \in (1..NumServers) \ {last.server} : Constructed(s)

\* Main has passed the validation loop and has created an interface or
\* called create_passive.
Building ==
    \/ \E l \in 1..NumInterfaces : interfaces[l].created
    \/ AfterCreatePassive
    \/ passives # << >>

\* C11: once an interface is created or a Listener constructed, every
\* validated configuration has the promisc flag set on the interface of each
\* Listener with port 0, and create_passive marks such a Listener's socket
\* promiscuous in that interface's capture domain when it reaches line 321.
C11_PortZeroIsPromiscuous ==
    /\ Building =>
          /\ pc \notin {"validate", "exit1"}
          /\ \A s \in 1..NumServers :
                servers[s].listen_port = 0 => interfaces[servers[s].interface].promisc
    /\ (/\ AfterCreatePassive
        /\ servers[last.server].listen_port = 0
        /\ Passed("make_promiscuous", last.failAt))
       => last.promiscuous = {interfaces[servers[last.server].interface].cdom}

\* The witness of C11: a Listener with port 0 on a host address, second on
\* its interface's capture domain 2, is constructed and marked promiscuous.
C11_Witness ==
    /\ AfterCreatePassive
    /\ last.server = 2
    /\ servers[2].listen_port = 0
    /\ servers[2].listen_addr = "host"
    /\ last.failAt = "none"
    /\ last.promiscuous = {2}
    /\ Constructed(2)

(***************************************************************************)
(* Properties of the worker threads (specification SpecThreads).           *)
(***************************************************************************)
\* The loop of the Listener that accepted the started record c.
OwnerLoop(c) == passives[conns[c].server].loop

\* C15: every Connection record is created, read, written and freed only by
\* the thread that runs the loop of the Listener that accepted it: accept_cb
\* runs on that loop, touches only the records it creates and starts their
\* watchers on that loop (the server field of a record is NULL until line
\* 256 or 270 sets it to that Listener); passive_receive_cb runs on the
\* loop of its record and touches no other record; the owner of a record
\* never changes.
C15_RecordTouchedByOwnLoopOnly ==
    /\ [](\A c \in (DOMAIN conns) \cap (DOMAIN watchers) :
             watchers[c].loop = OwnerLoop(c))
    /\ [][/\ nAccepts' = nAccepts + 1 =>
               /\ last'.thread = passives[last'.passive].loop
               /\ \A c \in DOMAIN conns : c \in DOMAIN conns' /\ conns'[c] = conns[c]
               /\ \A c \in (DOMAIN conns') \ (DOMAIN conns) :
                     /\ c \in {Conn(last'.k), PeerConn(last'.k)}
                     /\ conns'[c].server \in {NULL, last'.passive}
                     /\ c \in DOMAIN watchers' => watchers'[c].loop = last'.thread
          /\ ReadStep =>
               /\ last'.thread = OwnerLoop(last'.conn)
               /\ DOMAIN conns' \subseteq DOMAIN conns
               /\ \A d \in (DOMAIN conns) \ {last'.conn} :
                     d \in DOMAIN conns' /\ conns'[d] = conns[d]
               /\ last'.conn \in DOMAIN conns' =>
                     conns'[last'.conn].server = conns[last'.conn].server]_vars

\* The witness of C15: the thread of loop 2 has read from a record its
\* Listener accepted, after the thread of loop 1 had read from one of its
\* own.
C15_Witness ==
    /\ last.kind = "read"
    /\ last.exit = "return"
    /\ last.thread = 2
    /\ last.conn = Conn(1)
    /\ conns[Conn(1)].server = Passive(2)
    /\ Conn(0) \in DOMAIN conns
    /\ OwnerLoop(Conn(0)) = 1
    /\ conns[Conn(0)].bytes_read > 0

(***************************************************************************)
(* More properties of passive_receive_cb (specification Spec).             *)
(***************************************************************************)
\* The other Connection of the accept that produced c.
Sibling(c) == IF c[1] = "conn" THEN PeerConn(c[2]) ELSE Conn(c[2])

\* The loop of record d dispatches its read handler.
Readable(d) ==
    /\ d \in DOMAIN conns
    /\ d \in DOMAIN watchers
    /\ Dispatchable(watchers[d])

\* C16: a read or a teardown on one Connection of a pair leaves the other's
\* byte counter, label, watcher registration and socket as they were and
\* the process that serves it running, and the other is still read after
\* its sibling was torn down.  Violated: a read that fails the assert of
\* line 130 or 149 ends the process, and the sibling is never read again.
C16_SiblingsIndependent ==
    [][\A c \in DOMAIN conns :
         (/\ ReadStep
          /\ last'.conn = c
          /\ Sibling(c) \in DOMAIN conns
          /\ Sibling(c) \in DOMAIN watchers)
         => /\ ~crashed'
            /\ Sibling(c) \in DOMAIN conns'
            /\ conns'[Sibling(c)] = conns[Sibling(c)]
            /\ Sibling(c) \in DOMAIN watchers'
            /\ watchers'[Sibling(c)] = watchers[Sibling(c)]
            /\ ctxs'[watchers[Sibling(c)].ctx] = ctxs[watchers[Sibling(c)].ctx]
            /\ (ctxs[watchers[Sibling(c)].ctx] \in soOpen
                  <=> ctxs[watchers[Sibling(c)].ctx] \in soOpen')
            /\ (Ended /\ Readable(Sibling(c))) => Readable(Sibling(c))']_vars

\* C17: in every invocation that reaches the receive, read_size is
\* min(available, 65536 - 1) and 1 <= read_size <= 65535, so the greatest
\* index the verbose block writes a terminator at, read_size (lines 157 and
\* 188; line 176 writes below it), is inside the buffer.
C17_ReadSizeLeavesHeadroom ==
    (last.kind = "read" /\ last.max_read > 0) =>
        /\ last.read_size = (IF last.max_read < 65536 - 1 THEN last.max_read
                             ELSE 65536 - 1)
        /\ 1 <= last.read_size
        /\ last.read_size <= 65535
        /\ last.read_size \in 0..(BUFFER_SIZE - 1)

\* The witness of C17: more than the buffer holds was available, 65535
\* bytes were read and the verbose block ran.
C17_Witness ==
    /\ last.kind = "read"
    /\ last.max_read = 65536
    /\ last.read_size = 65535
    /\ last.exit = "return"
    /\ last.rendered

\* C20: the telemetry snapshot is taken only at verbosity 2 or more, and
\* whether its query succeeds or fails the Connection is not torn down, its
\* byte counter is the one line 151 left, and the verbose block still runs.
C20_TelemetryOnlyObserves ==
    [][\A c \in DOMAIN conns :
         (ReadStep /\ last'.conn = c /\ last'.telemetry # "none")
         => /\ verbose >= 2
            /\ last'.telemetry \in {"ok", "failed"}
            /\ last'.exit = "return"
            /\ last'.calls = << >>
            /\ ~crashed'
            /\ c \in DOMAIN conns'
            /\ conns'[c] = [conns[c] EXCEPT !.bytes_read = @ + last'.read_size]
            /\ c \in DOMAIN watchers'
            /\ watchers'[c] = watchers[c]
            /\ last'.so \in soOpen'
            /\ Readable(c)'
            /\ last'.rendered]_vars

\* The witness of C20: at verbosity 2 the telemetry query failed, the
\* verbose block ran and the Connection is still read.
C20_Witness ==
    /\ verbose = 2
    /\ last.kind = "read"
    /\ last.telemetry = "failed"
    /\ last.rendered
    /\ last.exit = "return"
    /\ Readable(last.conn)
    /\ conns[last.conn].bytes_read = last.read_size

(***************************************************************************)
(* Properties of the verbose block (specification SpecRender).  The text   *)
(* printed for a span is followed by the "\n" of line 190.                 *)
(***************************************************************************)
\* A printable byte: 0x20-0x7e, newline, carriage return, tab.
PrintableByte(b) == b \in (32..126) \cup {10, 13, 9}

\* The block has printed text and ended its line.
Rendered(text) == render.pc = "done" /\ render.out = text \o <<10>>

\* C12: a span of printable bytes only is printed unchanged, with no
\* <N> marker.
C12_PrintableSpanUnchanged ==
    (/\ render.pc = "done"
     /\ \A j \in 1..Len(render.input) : PrintableByte(render.input[j]))
    => (Rendered(render.input) /\ render.markers = << >>)

\* The witness of C12: space, '~', tab, newline and carriage return were
\* printed as received.
C12_Witness ==
    /\ render.pc = "done"
    /\ render.input = PrintableExample
    /\ render.out = <<32, 126, 9, 10, 13, 10>>
    /\ render.markers = << >>

\* C13: a span of L >= 1 non-printable bytes only is printed as the single
\* marker <L> and nothing else.
C13_NonPrintableSpanIsOneMarker ==
    (/\ render.pc = "done"
     /\ Len(render.input) >= 1
     /\ \A j \in 1..Len(render.input) : ~PrintableByte(render.input[j]))
    => (/\ Rendered(<<60>> \o Decimal(Len(render.input)) \o <<62>>)
        /\ render.markers = <<Len(render.input)>>
        /\ render.emitted = 0)

\* The witness of C13: ten non-printable bytes were printed as <10>.
C13_Witness ==
    /\ render.pc = "done"
    /\ render.input = NonPrintableExample
    /\ render.out = <<60, 49, 48, 62, 10>>

\* The length of the printable run that ends the first n bytes of span.
RunLength(span, n) ==
    CHOOSE m \in 0..n :
        /\ \A j \in (n - m + 1)..n : PrintableByte(span[j])
        /\ (m = n \/ ~PrintableByte(span[n - m]))

\* What printf("<%u>", n) prints when n is not 0, else nothing.
PendingMarker(n) == IF n # 0 THEN <<60>> \o Decimal(n) \o <<62>> ELSE << >>

\* The loop has left the span behind: i = read_size at line 185.
AtEndOfSpan == render.pc = "loop" /\ render.i = render.read_size

\* C14: at the end of the span the block prints the marker if the skipped
\* count is not 0, then the trailing printable run whatever its length;
\* "AAAAAAAAAA", 3 non-printable bytes and "BB" print as AAAAAAAAAA<3>BB,
\* and 5 printable bytes alone print as received.
C14_EndOfSpanFlushes ==
    /\ [][AtEndOfSpan =>
            LET n == Len(render.input)
                m == RunLength(render.input, n)
            IN  render'.out = render.out \o PendingMarker(render.skipped)
                                         \o SubSeq(render.input, n - m + 1, n) \o <<10>>]_vars
    /\ []((render.pc = "done" /\ render.input = TrailingRunExample)
            => render.out = Rep(65, 10) \o <<60, 51, 62, 66, 66, 10>>)
    /\ []((render.pc = "done" /\ render.input = PrintableExample)
            => render.out = PrintableExample \o <<10>>)

\* The witness of C14: AAAAAAAAAA<3>BB was printed for the example, the
\* marker and the two-byte run by the lines after the loop.
C14_Witness ==
    /\ render.pc = "done"
    /\ render.input = TrailingRunExample
    /\ render.out = <<65, 65, 65, 65, 65, 65, 65, 65, 65, 65, 60, 51, 62, 66, 66, 10>>
    /\ render.markers = <<3>>
    /\ render.printable = 2

\* The loop is at a non-printable byte (line 166).
AtNonPrintable ==
    /\ render.pc = "loop"
    /\ render.i < render.read_size
    /\ ~PrintableByte(render.input[render.i + 1])

\* C18: at a non-printable byte the printable run that just ended is
\* printed, after the marker if the skipped count is not 0, exactly when it
\* has 10 bytes or more; a shorter run is not printed and its length is
\* added to the skipped count; in both cases the skipped count is then
\* incremented by 1 and the run length reset to 0.
C18_RunEmittedIffThreshold ==
    [][AtNonPrintable =>
         LET m   == RunLength(render.input, render.i)
             run == SubSeq(render.input, render.i - m + 1, render.i)
         IN  /\ render.printable = m
             /\ m >= 10 =>
                  /\ render'.out = render.out \o PendingMarker(render.skipped) \o run
                  /\ render'.skipped = render.skipped + 1
             /\ m < 10 =>
                  /\ render'.out = render.out
                  /\ render'.skipped = render.skipped + m + 1
             /\ render'.printable = 0]_vars

\* The witness of C18: after one skipped byte a run of exactly 10 bytes was
\* printed behind <1> at the next non-printable byte.
C18_Witness ==
    /\ render.pc = "loop"
    /\ render.i = 12
    /\ render.out = <<60, 49, 62>> \o Rep(65, 10)
    /\ render.printable = 0
    /\ render.skipped = 2

RECURSIVE SumOf(_)
SumOf(seq) == IF seq = << >> THEN 0 ELSE Head(seq) + SumOf(Tail(seq))

\* C19: for every span, the number of printable bytes printed plus the sum
\* of the values of the markers printed is the length of the span.
C19_MarkersAccountForSkipped ==
    render.pc = "done" => render.emitted + SumOf(render.markers) = render.read_size

(***************************************************************************)
(* Properties of the labels (specification SpecLabel).                     *)
(***************************************************************************)
\* "a.b.c.d:port" for a socket address.
AddrPort(sin) ==
    Decimal(sin.sin_addr[1]) \o <<46>> \o Decimal(sin.sin_addr[2]) \o <<46>>
        \o Decimal(sin.sin_addr[3]) \o <<46>> \o Decimal(sin.sin_addr[4])
        \o <<58>> \o Decimal(sin.sin_port[1] * 256 + sin.sin_port[2])

\* "<tag> (local <- remote)" for the two addresses of a socket.
LabelOf(tag, so) ==
    tag \o <<32, 40>> \o AddrPort(so.local) \o <<32, 60, 45, 32>> \o AddrPort(so.remote)
        \o <<41>>

\* C21: the label of the Connection of the accepted socket is tagged SERVER
\* and that of the passive peer CLIENT, and each shows its socket's local
\* address:port followed by its remote address:port, also when the two
\* addresses differ.
C21_LabelShowsLocalThenRemote ==
    /\ labelling.pc \in {"peerconn", "done"} =>
          labelling.conn = LabelOf(SERVER, labelling.newso)
    /\ labelling.pc = "done" =>
          labelling.peerconn = LabelOf(CLIENT, labelling.newpeerso)

====
